---- MODULE Spec2Model ----
(***************************************************************************)
(* Model of the content-addressed resource resolver of lbparchive_tools    *)
(* (src/src/resource_dl.rs): Downloader::fetch_one_cached, run by the      *)
(* tasks of a JoinSet on the multi-threaded tokio runtime, and the         *)
(* scheduler loop of download_level.  One step of a task is one access to  *)
(* state shared with other tasks (file system, seen set, memory cache,     *)
(* semaphore, archive pool); the local computation that follows an access  *)
(* (digest, parse) belongs to the same step.                               *)
(***************************************************************************)
EXTENDS Integers, Sequences, FiniteSets, TLC

\* ------------------------------------------------------------------ bounds
MaxParallel == 2
MaxRuns == 2

\* --------------------------------------------------- the universe of values
\* Content hashes and byte strings (blobs) of the modelled archive.
Hashes == 0..3
Blobs == {"b0", "b1", "b2", "b3"}
\* contents of a cache file other than complete bytes: no file, a file that
\* cannot be read, a file that fs::write has created but not yet filled
Absent == "absent"
Unreadable == "unreadable"
Trunc == "trunc"
NoBuf == "nobuf"
NoEntry == "noentry"

\* SHA-1 of a byte string: collision free on the blobs of the model
Digest(b) ==
    CASE b = "b0" -> 1
      [] b = "b1" -> 2
      [] b = "b2" -> 3
      [] b = "b3" -> 0

\* mutant: the digest comparison is dropped
VerifiesNoCheck(buf, sha1) == TRUE

\* hasher.finalize().as_slice() != sha1, negated; the bytes of a truncated
\* file hash to no hash that is ever requested
Verifies(buf, sha1) == buf \in Blobs /\ Digest(buf) = sha1

\* the one byte string whose digest is h
GoodBlob(h) == CHOOSE b \in Blobs : Digest(b) = h
\* a byte string that does not hash to h
BadBlob(h) == CHOOSE b \in Blobs : Digest(b) # h

\* ResrcData::new(&buf, false): the decoder of crate::resource_parse.
\*   "fail"   the decoder returns Err
\*   "other"  a resource whose method is not ResrcMethod::Binary
\*   "binary" ResrcMethod::Binary with its ordered dependency descriptors,
\*            each <<"sha1", hash>> or <<"guid", n>>
ResrcDataNew(b) ==
    CASE b = GoodBlob(0) -> [kind |-> "binary",
                             dependencies |-> << <<"sha1", 1>>, <<"guid", 3>>, <<"sha1", 2>> >>]
      [] b = GoodBlob(1) -> [kind |-> "binary",
                             dependencies |-> << <<"sha1", 2>>, <<"sha1", 0>> >>]
      [] b = GoodBlob(2) -> [kind |-> "other", dependencies |-> << >>]
      [] OTHER           -> [kind |-> "fail", dependencies |-> << >>]

RECURSIVE Sha1Prefix(_)
\* mutant: the list ends at the first descriptor that is not a hash
Sha1Prefix(ds) ==
    IF ds = << >> THEN << >>
    ELSE IF Head(ds)[1] = "sha1" THEN <<Head(ds)[2]>> \o Sha1Prefix(Tail(ds))
         ELSE << >>

RECURSIVE Sha1Only(_)
\* filter_map(|d| if let ResrcDescriptor::Sha1(s) = d.desc { Some(s) } else { None })
Sha1Only(ds) ==
    IF ds = << >> THEN << >>
    ELSE IF Head(ds)[1] = "sha1" THEN <<Head(ds)[2]>> \o Sha1Only(Tail(ds))
         ELSE Sha1Only(Tail(ds))

\* mutant: descriptors of every kind are returned as hashes
DepsOfAnyKind(b) ==
    LET meta == ResrcDataNew(b)
    IN  IF meta.kind = "binary"
        THEN [i \in 1..Len(meta.dependencies) |-> meta.dependencies[i][2]]
        ELSE << >>

\* the dependency list fetch_one_cached computes from verified bytes
DepsOf(b) ==
    LET meta == ResrcDataNew(b)
    IN  IF meta.kind = "binary" THEN Sha1Only(meta.dependencies) ELSE << >>

\* archive file a hash lives in: keyed by the first byte of the hash
\* (dry{hex[0..2]}.zip); the model's hashes 0,1 share a first byte, as do 2,3
ZipOf(h) == h \div 2
Zips == {ZipOf(h) : h \in Hashes}

SeqToSet(s) == {s[i] : i \in 1..Len(s)}

VARIABLES
    \* inputs of the invocation and the externally provided archive
    root, icon_sha1, max_parallel, zipOk, entry, diskFull, shardOf,
    \* the disk cache directory: Absent, Unreadable, Trunc or a blob per hash
    disk,
    \* one download_level invocation
    run, status, tasks, doneQ, pending, result,
    \* success_count and error_count of the DownloadResult
    stats,
    \* the Downloader
    seen, cache, permits, pool, zlock,
    \* observation: File::open calls of this run, reads per hash of this run,
    \* outcome of the earlier runs
    opens, reads, written, history,
    \* the archive location of one hash: the 20 bytes handed to
    \* fetch_one_cached and the names derived from them
    sha1, derived,
    \* the function of main.rs that calls download_level and the
    \* max_parallel_downloads of its Config
    caller, configured

world == <<root, icon_sha1, max_parallel, zipOk, entry, diskFull, shardOf,
          caller, configured>>
dl == <<seen, cache, permits, pool, zlock>>
obs == <<opens, reads, written, history>>
path == <<sha1, derived>>
vars == <<root, icon_sha1, max_parallel, zipOk, entry, diskFull, shardOf, disk, run, status,
          tasks, doneQ, pending, result, seen, cache, permits, pool, zlock,
          opens, reads, written, history, stats, sha1, derived, caller,
          configured>>

TaskIds == DOMAIN tasks

\* what a fetch_one_cached future has returned: "none" while it runs, "ok"
\* for Ok(children), otherwise the anyhow error it returned:
\*   "io" fs::read / fs::write failed     "open" the archive cannot be opened
\*   "entry" the archive lacks the entry  "mismatch" the SHA1 check failed
\*   "parse" ResrcData::new failed
IsErr(ret) == ret \in {"io", "open", "entry", "mismatch", "parse"}

\* a freshly spawned fetch_one_cached(h, archive_root) future
\* (handle: the archive handle the blocking closure took its Ref to, named by
\* the task that opened it; 0 before that)
NewTask(h) == [h |-> h, pc |-> "exists", buf |-> NoBuf, deps |-> << >>,
               ret |-> "none", claimed |-> FALSE, handle |-> 0]

\* program points at which the task holds a semaphore permit (_permit lives
\* from the acquire to the return of fetch_one_cached)
PermitPcs == {"zget", "zopen", "zinsert", "zref", "zlock", "zextract",
              "write", "write2", "aseen", "amem"}
\* program points at which the blocking closure holds the DashMap Ref
RefPcs == {"zlock", "zextract"}
ActivePcs == {"exists", "dread", "dseen", "dmem", "acquire"} \cup PermitPcs

EmptyCache == [h \in {} |-> NoBuf]
\* the counters while no DownloadResult has been built
NoStats == [success_count |-> 0, error_count |-> 0]

\* ------------------------------------------------------------------- Init
\* The starting worlds: nothing wrong, or exactly one thing wrong with the
\* archive or the disk cache, or one file already cached.  DashMap places a
\* key in a shard by the hash of the key: two archive paths share a shard or
\* they do not.
NoFaultDisk == [h \in Hashes |-> Absent]
NoFaultEntry == [h \in Hashes |-> GoodBlob(h)]
AllZipsOk == [z \in Zips |-> TRUE]
OwnShard == [z \in Zips |-> z]
OneShard == [z \in Zips |-> 0]
\* the hashes a fault is placed on: an inner node and a shared leaf
FaultHashes == {0, 2}

Worlds ==
    {[disk |-> NoFaultDisk, entry |-> NoFaultEntry, zipOk |-> AllZipsOk,
      full |-> FALSE, shard |-> sh] : sh \in {OwnShard, OneShard}}
    \cup {[disk |-> NoFaultDisk, entry |-> NoFaultEntry, zipOk |-> AllZipsOk,
           full |-> TRUE, shard |-> OwnShard]}
    \cup UNION {{[disk |-> [NoFaultDisk EXCEPT ![h] = d], entry |-> NoFaultEntry,
                   zipOk |-> AllZipsOk, full |-> FALSE, shard |-> OwnShard] :
                    d \in {GoodBlob(h), BadBlob(h), Unreadable}} : h \in FaultHashes}
    \cup UNION {{[disk |-> NoFaultDisk, entry |-> [NoFaultEntry EXCEPT ![h] = e],
                   zipOk |-> AllZipsOk, full |-> FALSE, shard |-> OwnShard] :
                    e \in {NoEntry, BadBlob(h)}} : h \in FaultHashes}
    \cup {[disk |-> NoFaultDisk, entry |-> NoFaultEntry,
           zipOk |-> [AllZipsOk EXCEPT ![z] = FALSE], full |-> FALSE,
           shard |-> OwnShard] : z \in Zips}

\* the (root, icon_sha1) arguments tried: every root alone, a root that is
\* its own icon, and roots with an icon elsewhere in the archive
Roots ==
    {<<r, {}>> : r \in Hashes}
    \cup {<<0, {0}>>, <<2, {2}>>, <<3, {3}>>, <<0, {1}>>, <<1, {2}>>, <<2, {3}>>}

\* no archive location derived yet
NoPath == [range_start |-> 0, range_end |-> 0, res_folder |-> << >>,
           subfolder |-> << >>, zipname |-> << >>, entry_name |-> << >>]

\* icon_sha1 is an Option: the empty set or one hash
IconTasks == IF icon_sha1 = {} THEN << >>
             ELSE <<NewTask(CHOOSE h \in icon_sha1 : TRUE)>>

\* download_level up to the scheduler loop: Downloader::new, the root task,
\* the optional icon task, the pending set
StartRun ==
    /\ status = "running"
    /\ tasks = <<NewTask(root)>> \o IconTasks
    /\ doneQ = << >>
    /\ pending = {root} \cup icon_sha1
    /\ result = EmptyCache
    /\ stats = NoStats
    /\ seen = {}
    /\ cache = EmptyCache
    /\ permits = max_parallel
    /\ pool = [z \in Zips |-> 0]
    /\ zlock = {}
    /\ opens = 0
    /\ reads = [h \in Hashes |-> 0]

Init ==
    /\ \E r \in Roots : root = r[1] /\ icon_sha1 = r[2]
    /\ max_parallel \in 1..MaxParallel
    /\ \E w \in Worlds :
        /\ disk = w.disk
        /\ entry = w.entry
        /\ zipOk = w.zipOk
        /\ diskFull = w.full
        /\ shardOf = w.shard
    /\ run = 1
    /\ history = << >>
    /\ written = {}
    /\ StartRun
    /\ sha1 = << >>
    /\ derived = NoPath
    /\ caller = "fetch_level"
    /\ configured = max_parallel

\* ------------------------------------------------- fetch_one_cached, steps
Put(m, k, v) == [x \in DOMAIN m \cup {k} |-> IF x = k THEN v ELSE m[x]]

\* mutant: the permit goes back only when the call returns Ok
ReturnLeakOnErr(t, ret, deps, claimed) ==
    /\ tasks' = [tasks EXCEPT ![t].pc = "done", ![t].ret = ret,
                              ![t].deps = deps, ![t].claimed = claimed]
    /\ doneQ' = Append(doneQ, t)
    /\ permits' = IF tasks[t].pc \in PermitPcs /\ ~IsErr(ret)
                  THEN permits + 1 ELSE permits

\* mutant: the permit of a returning call is not given back
ReturnLeak(t, ret, deps, claimed) ==
    /\ tasks' = [tasks EXCEPT ![t].pc = "done", ![t].ret = ret,
                              ![t].deps = deps, ![t].claimed = claimed]
    /\ doneQ' = Append(doneQ, t)
    /\ permits' = permits

\* fetch_one_cached returns: the future completes, its locals are dropped
\* (the permit, if one is held, goes back to the semaphore) and the JoinSet
\* can hand the output to join_next
Return(t, ret, deps, claimed) ==
    /\ tasks' = [tasks EXCEPT ![t].pc = "done", ![t].ret = ret,
                              ![t].deps = deps, ![t].claimed = claimed]
    /\ doneQ' = Append(doneQ, t)
    /\ permits' = IF tasks[t].pc \in PermitPcs THEN permits + 1 ELSE permits

Goto(t, pc) == tasks' = [tasks EXCEPT ![t].pc = pc]

\* mutant: the cache file is never found
ExistsNever(t) ==
    /\ tasks[t].pc = "exists"
    /\ Goto(t, "acquire")
    /\ UNCHANGED <<world, path, stats, disk, run, status, doneQ, pending, result, dl, obs>>

\* if cache_file.exists()
Exists(t) ==
    /\ tasks[t].pc = "exists"
    /\ Goto(t, IF disk[tasks[t].h] # Absent THEN "dread" ELSE "acquire")
    /\ UNCHANGED <<world, path, stats, disk, run, status, doneQ, pending, result, dl, obs>>

\* mutant: a cache file that fails the digest check sends the call to the
\* archive tier
DiskReadFallback(t) ==
    LET h == tasks[t].h
        buf == disk[h]
    IN  /\ tasks[t].pc = "dread"
        /\ IF buf \in {Absent, Unreadable}
           THEN /\ Return(t, "io", << >>, FALSE)
                /\ UNCHANGED reads
           ELSE /\ reads' = [reads EXCEPT ![h] = @ + 1]
                /\ tasks' = [tasks EXCEPT
                                ![t].pc = IF buf \in Blobs /\ Digest(buf) = h
                                          THEN "dseen" ELSE "acquire",
                                ![t].buf = buf]
                /\ UNCHANGED <<doneQ, permits>>
        /\ UNCHANGED <<world, path, stats, disk, run, status, pending, result, seen, cache,
                       pool, zlock, opens, written, history>>

\* mutant: the cache file is read only while a permit is free
DiskReadLimited(t) ==
    LET h == tasks[t].h
        buf == disk[h]
    IN  /\ tasks[t].pc = "dread"
        /\ permits > 0
        /\ IF buf \in {Absent, Unreadable}
           THEN /\ Return(t, "io", << >>, FALSE)
                /\ UNCHANGED reads
           ELSE /\ reads' = [reads EXCEPT ![h] = @ + 1]
                /\ IF Verifies(buf, h)
                   THEN /\ tasks' = [tasks EXCEPT ![t].pc = "dseen", ![t].buf = buf]
                        /\ UNCHANGED <<doneQ, permits>>
                   ELSE Return(t, "mismatch", << >>, FALSE)
        /\ UNCHANGED <<world, path, stats, disk, run, status, pending, result, seen, cache,
                       pool, zlock, opens, written, history>>

\* fs::read(&cache_file)? and the digest check of the disk tier
DiskRead(t) ==
    LET h == tasks[t].h
        buf == disk[h]
    IN  /\ tasks[t].pc = "dread"
        /\ IF buf \in {Absent, Unreadable}
           THEN /\ Return(t, "io", << >>, FALSE)
                /\ UNCHANGED reads
           ELSE /\ reads' = [reads EXCEPT ![h] = @ + 1]
                /\ IF Verifies(buf, h)
                   THEN /\ tasks' = [tasks EXCEPT ![t].pc = "dseen", ![t].buf = buf]
                        /\ UNCHANGED <<doneQ, permits>>
                   ELSE Return(t, "mismatch", << >>, FALSE)
        /\ UNCHANGED <<world, path, stats, disk, run, status, pending, result, seen, cache,
                       pool, zlock, opens, written, history>>

\* mutant: the seen set is consulted but the hash is not entered
DiskSeenNoInsert(t) ==
    LET h == tasks[t].h
    IN  /\ tasks[t].pc = "dseen"
        /\ IF h \in seen
           THEN /\ Return(t, "ok", << >>, FALSE)
                /\ UNCHANGED seen
           ELSE /\ seen' = seen
                /\ tasks' = [tasks EXCEPT ![t].pc = "dmem", ![t].claimed = TRUE]
                /\ UNCHANGED <<doneQ, permits>>
        /\ UNCHANGED <<world, path, stats, disk, run, status, pending, result, cache,
                       pool, zlock, obs>>

\* seen.lock().await; if !seen.insert(sha1) { return Ok(vec![]) }, disk tier
DiskSeen(t) ==
    LET h == tasks[t].h
    IN  /\ tasks[t].pc = "dseen"
        /\ IF h \in seen
           THEN /\ Return(t, "ok", << >>, FALSE)
                /\ UNCHANGED seen
           ELSE /\ seen' = seen \cup {h}
                /\ tasks' = [tasks EXCEPT ![t].pc = "dmem", ![t].claimed = TRUE]
                /\ UNCHANGED <<doneQ, permits>>
        /\ UNCHANGED <<world, path, stats, disk, run, status, pending, result, cache,
                       pool, zlock, obs>>

\* mem.insert(sha1, buf.clone()), then ResrcData::new(&buf, false)? and the
\* return of the Sha1 dependencies, disk tier
DiskMem(t) ==
    LET h == tasks[t].h
        buf == tasks[t].buf
    IN  /\ tasks[t].pc = "dmem"
        /\ cache' = Put(cache, h, buf)
        /\ IF ResrcDataNew(buf).kind = "fail"
           THEN Return(t, "parse", << >>, TRUE)
           ELSE Return(t, "ok", DepsOf(buf), TRUE)
        /\ UNCHANGED <<world, path, stats, disk, run, status, pending, result, seen,
                       pool, zlock, obs>>

\* mutant: the permit is taken without waiting for one to be free
AcquireNoWait(t) ==
    /\ tasks[t].pc = "acquire"
    /\ permits' = permits - 1
    /\ Goto(t, "zget")
    /\ UNCHANGED <<world, path, stats, disk, run, status, doneQ, pending, result, seen,
                   cache, pool, zlock, obs>>

\* mutant: a semaphore built for 0 permits still lets one call through
AcquireFloorOne(t) ==
    /\ tasks[t].pc = "acquire"
    /\ permits > 0 \/ max_parallel = 0
    /\ permits' = IF permits > 0 THEN permits - 1 ELSE permits
    /\ Goto(t, "zget")
    /\ UNCHANGED <<world, path, stats, disk, run, status, doneQ, pending, result, seen,
                   cache, pool, zlock, obs>>

\* let _permit = self.sem.acquire().await?
Acquire(t) ==
    /\ tasks[t].pc = "acquire"
    /\ permits > 0
    /\ permits' = permits - 1
    /\ Goto(t, "zget")
    /\ UNCHANGED <<world, path, stats, disk, run, status, doneQ, pending, result, seen,
                   cache, pool, zlock, obs>>

\* if pool.get(&zip_path).is_none()
ZGet(t) ==
    /\ tasks[t].pc = "zget"
    /\ Goto(t, IF pool[ZipOf(tasks[t].h)] = 0 THEN "zopen" ELSE "zref")
    /\ UNCHANGED <<world, path, stats, disk, run, status, doneQ, pending, result, dl, obs>>

\* mutant: a failure to open the archive is not returned
ZOpenNoCheck(t) ==
    /\ tasks[t].pc = "zopen"
    /\ opens' = opens + 1
    /\ Goto(t, "zinsert")
    /\ UNCHANGED <<world, path, stats, disk, run, status, doneQ, pending, result, dl,
                   reads, written, history>>

\* File::open(&zip_path) and ZipArchive::new(f)
ZOpen(t) ==
    /\ tasks[t].pc = "zopen"
    /\ opens' = opens + 1
    /\ IF zipOk[ZipOf(tasks[t].h)]
       THEN /\ Goto(t, "zinsert")
            /\ UNCHANGED <<doneQ, permits>>
       ELSE Return(t, "open", << >>, FALSE)
    /\ UNCHANGED <<world, path, stats, disk, run, status, pending, result, seen, cache,
                   pool, zlock, reads, written, history>>

\* tasks whose blocking closure holds a Ref into the shard of archive z
RefHolders(z) ==
    {u \in TaskIds : /\ tasks[u].pc \in RefPcs
                     /\ shardOf[ZipOf(tasks[u].h)] = shardOf[z]}

\* pool.insert(zip_path.clone(), StdMutex::new(arch)): takes the write lock
\* of the shard, so it waits for every Ref into that shard; it replaces the
\* handle another task may have inserted in the meantime
ZInsert(t) ==
    LET z == ZipOf(tasks[t].h)
    IN  /\ tasks[t].pc = "zinsert"
        /\ RefHolders(z) = {}
        /\ pool' = [pool EXCEPT ![z] = t]
        /\ Goto(t, "zref")
        /\ UNCHANGED <<world, path, stats, disk, run, status, doneQ, pending, result, seen,
                       cache, permits, zlock, obs>>

\* let mutex = pool.get(&zip_path).unwrap(): the Ref is held from here on
ZRef(t) ==
    /\ tasks[t].pc = "zref"
    /\ tasks' = [tasks EXCEPT ![t].pc = "zlock",
                              ![t].handle = pool[ZipOf(tasks[t].h)]]
    /\ UNCHANGED <<world, path, stats, disk, run, status, doneQ, pending, result, dl, obs>>

\* mutant: the handle is used without waiting for its mutex
ZLockNoWait(t) ==
    LET z == ZipOf(tasks[t].h)
    IN  /\ tasks[t].pc = "zlock"
        /\ zlock' = zlock \cup {tasks[t].handle}
        /\ Goto(t, "zextract")
        /\ UNCHANGED <<world, path, stats, disk, run, status, doneQ, pending, result, seen,
                       cache, permits, pool, obs>>

\* let mut archive = mutex.lock()
ZLock(t) ==
    LET z == ZipOf(tasks[t].h)
    IN  /\ tasks[t].pc = "zlock"
        /\ tasks[t].handle \notin zlock
        /\ zlock' = zlock \cup {tasks[t].handle}
        /\ Goto(t, "zextract")
        /\ UNCHANGED <<world, path, stats, disk, run, status, doneQ, pending, result, seen,
                       cache, permits, pool, obs>>

\* mutant: the closure hands the verified bytes on without parsing them
ZExtractUnparsed(t) ==
    LET h == tasks[t].h
        z == ZipOf(h)
        buf == entry[h]
    IN  /\ tasks[t].pc = "zextract"
        /\ zlock' = zlock \ {tasks[t].handle}
        /\ IF buf = NoEntry
           THEN /\ Return(t, "entry", << >>, FALSE)
                /\ UNCHANGED reads
           ELSE /\ reads' = [reads EXCEPT ![h] = @ + 1]
                /\ IF ~Verifies(buf, h)
                   THEN Return(t, "mismatch", << >>, FALSE)
                   ELSE /\ tasks' = [tasks EXCEPT ![t].pc = "write", ![t].buf = buf,
                                                  ![t].deps = DepsOf(buf)]
                        /\ UNCHANGED <<doneQ, permits>>
        /\ UNCHANGED <<world, path, stats, disk, run, status, pending, result, seen, cache,
                       pool, opens, written, history>>

\* mutant: the extracted bytes are not checked against the hash
ZExtractUnverified(t) ==
    LET h == tasks[t].h
        z == ZipOf(h)
        buf == entry[h]
    IN  /\ tasks[t].pc = "zextract"
        /\ zlock' = zlock \ {tasks[t].handle}
        /\ IF buf = NoEntry
           THEN /\ Return(t, "entry", << >>, FALSE)
                /\ UNCHANGED reads
           ELSE /\ reads' = [reads EXCEPT ![h] = @ + 1]
                /\ IF ResrcDataNew(buf).kind = "fail"
                   THEN Return(t, "parse", << >>, FALSE)
                   ELSE /\ tasks' = [tasks EXCEPT ![t].pc = "write", ![t].buf = buf,
                                                  ![t].deps = DepsOf(buf)]
                        /\ UNCHANGED <<doneQ, permits>>
        /\ UNCHANGED <<world, path, stats, disk, run, status, pending, result, seen, cache,
                       pool, opens, written, history>>

\* archive.by_name(&entry_name), io::copy, the digest check and the parse of
\* the archive tier; the closure returns and drops the guard and the Ref
ZExtract(t) ==
    LET h == tasks[t].h
        z == ZipOf(h)
        buf == entry[h]
    IN  /\ tasks[t].pc = "zextract"
        /\ zlock' = zlock \ {tasks[t].handle}
        /\ IF buf = NoEntry
           THEN /\ Return(t, "entry", << >>, FALSE)
                /\ UNCHANGED reads
           ELSE /\ reads' = [reads EXCEPT ![h] = @ + 1]
                /\ IF ~Verifies(buf, h)
                   THEN Return(t, "mismatch", << >>, FALSE)
                   ELSE IF ResrcDataNew(buf).kind = "fail"
                   THEN Return(t, "parse", << >>, FALSE)
                   ELSE /\ tasks' = [tasks EXCEPT ![t].pc = "write", ![t].buf = buf,
                                                  ![t].deps = DepsOf(buf)]
                        /\ UNCHANGED <<doneQ, permits>>
        /\ UNCHANGED <<world, path, stats, disk, run, status, pending, result, seen, cache,
                       pool, opens, written, history>>

\* fs::write(&cache_file, &buf)?, first half: File::create makes the file,
\* or truncates the one that is there
WriteCreate(t) ==
    LET h == tasks[t].h
    IN  /\ tasks[t].pc = "write"
        /\ disk' = [disk EXCEPT ![h] = Trunc]
        /\ written' = written \cup {h}
        /\ Goto(t, "write2")
        /\ UNCHANGED <<world, path, stats, run, status, doneQ, pending, result, dl,
                       opens, reads, history>>

\* mutant: a failed write is ignored and the call goes on
WriteAllBestEffort(t) ==
    LET h == tasks[t].h
    IN  /\ tasks[t].pc = "write2"
        /\ disk' = [disk EXCEPT ![h] = IF diskFull THEN @ ELSE tasks[t].buf]
        /\ Goto(t, "aseen")
        /\ UNCHANGED <<world, path, stats, run, status, doneQ, pending, result, seen,
                       cache, permits, pool, zlock, obs>>

\* fs::write(&cache_file, &buf)?, second half: write_all fills the file, or
\* fails and leaves it as it is
WriteAll(t) ==
    LET h == tasks[t].h
    IN  /\ tasks[t].pc = "write2"
        /\ IF diskFull
           THEN /\ Return(t, "io", << >>, FALSE)
                /\ UNCHANGED disk
           ELSE /\ disk' = [disk EXCEPT ![h] = tasks[t].buf]
                /\ Goto(t, "aseen")
                /\ UNCHANGED <<doneQ, permits>>
        /\ UNCHANGED <<world, path, stats, run, status, pending, result, seen, cache,
                       pool, zlock, obs>>

\* mutant: the result of seen.insert is ignored
ArchSeenNoGate(t) ==
    /\ tasks[t].pc = "aseen"
    /\ seen' = seen \cup {tasks[t].h}
    /\ tasks' = [tasks EXCEPT ![t].pc = "amem", ![t].claimed = TRUE]
    /\ UNCHANGED <<world, path, stats, disk, run, status, doneQ, pending, result, cache,
                   permits, pool, zlock, obs>>

\* seen.lock().await; if !seen.insert(sha1) { return Ok(vec![]) }, archive tier
ArchSeen(t) ==
    LET h == tasks[t].h
    IN  /\ tasks[t].pc = "aseen"
        /\ IF h \in seen
           THEN /\ Return(t, "ok", << >>, FALSE)
                /\ UNCHANGED seen
           ELSE /\ seen' = seen \cup {h}
                /\ tasks' = [tasks EXCEPT ![t].pc = "amem", ![t].claimed = TRUE]
                /\ UNCHANGED <<doneQ, permits>>
        /\ UNCHANGED <<world, path, stats, disk, run, status, pending, result, cache,
                       pool, zlock, obs>>

\* mem.insert(sha1, buf.clone()); Ok(deps), archive tier
ArchMem(t) ==
    LET h == tasks[t].h
    IN  /\ tasks[t].pc = "amem"
        /\ cache' = Put(cache, h, tasks[t].buf)
        /\ Return(t, "ok", tasks[t].deps, TRUE)
        /\ UNCHANGED <<world, path, stats, disk, run, status, pending, result, seen,
                       pool, zlock, obs>>

\* ---------------------------------------------------- download_level, steps
\* mutant: only the first child of a completed task is considered
SpawnFirstChild(deps, pend, ts) ==
    IF deps = << >> \/ Head(deps) \in pend THEN [pending |-> pend, tasks |-> ts]
    ELSE [pending |-> pend \cup {Head(deps)},
          tasks |-> Append(ts, NewTask(Head(deps)))]

RECURSIVE SpawnChildren(_, _, _)
\* for child in deps { if pending.insert(child) { js.spawn(...) } }:
\* the pending set and the task list after the loop
SpawnChildren(deps, pend, ts) ==
    IF deps = << >> THEN [pending |-> pend, tasks |-> ts]
    ELSE IF Head(deps) \in pend
         THEN SpawnChildren(Tail(deps), pend, ts)
         ELSE SpawnChildren(Tail(deps), pend \cup {Head(deps)},
                            Append(ts, NewTask(Head(deps))))

Running == {t \in TaskIds : tasks[t].pc \in ActivePcs}
\* tasks between the two halves of fs::write for the cache file of h
Writers(h) == {u \in TaskIds : tasks[u].pc = "write2" /\ tasks[u].h = h}

\* mutant: the error of a task is dropped and the loop goes on
JoinNextIgnoreErr ==
    /\ status = "running"
    /\ doneQ # << >>
    /\ LET t == Head(doneQ)
           joined == [tasks EXCEPT ![t].pc = "joined"]
           sp == SpawnChildren(tasks[t].deps, pending, joined)
       IN  /\ tasks' = sp.tasks
           /\ pending' = sp.pending
           /\ doneQ' = Tail(doneQ)
    /\ UNCHANGED <<world, path, stats, disk, run, status, result, dl, obs>>

\* one turn of `while let Some(res) = js.join_next().await`: the output of
\* the task that completed first.  `res??` returns its error from
\* download_level: the JoinSet is dropped, which aborts every task that is
\* still running at its next await; a task inside fs::write finishes the
\* write first; permits and locks of the aborted tasks go back.  Otherwise
\* the children not yet pending are spawned.
\* mutant: the tasks still outstanding are detached, not cancelled
JoinNextDetach ==
    /\ status = "running"
    /\ doneQ # << >>
    /\ LET t == Head(doneQ)
           joined == [tasks EXCEPT ![t].pc = "joined"]
       IN  IF IsErr(tasks[t].ret)
           THEN /\ status' = "err"
                /\ tasks' = joined
                /\ doneQ' = Tail(doneQ)
                /\ UNCHANGED <<pending, disk, permits, zlock>>
           ELSE LET sp == SpawnChildren(tasks[t].deps, pending, joined)
                IN  /\ tasks' = sp.tasks
                    /\ pending' = sp.pending
                    /\ doneQ' = Tail(doneQ)
                    /\ UNCHANGED <<status, disk, permits, zlock>>
    /\ UNCHANGED <<world, path, stats, run, result, seen, cache, pool, obs>>

JoinNext ==
    /\ status = "running"
    /\ doneQ # << >>
    /\ LET t == Head(doneQ)
           joined == [tasks EXCEPT ![t].pc = "joined"]
       IN  IF IsErr(tasks[t].ret)
           THEN /\ status' = "err"
                /\ tasks' = [u \in TaskIds |->
                                IF u \in Running
                                THEN [joined[u] EXCEPT !.pc = "aborted"]
                                ELSE joined[u]]
                /\ doneQ' = << >>
                /\ disk' = [h \in Hashes |->
                               IF ~diskFull /\ Writers(h) # {}
                               THEN tasks[CHOOSE u \in Writers(h) : TRUE].buf
                               ELSE disk[h]]
                /\ permits' = max_parallel
                /\ zlock' = {}
                /\ UNCHANGED pending
           ELSE LET sp == SpawnChildren(tasks[t].deps, pending, joined)
                IN  /\ tasks' = sp.tasks
                    /\ pending' = sp.pending
                    /\ doneQ' = Tail(doneQ)
                    /\ UNCHANGED <<status, disk, permits, zlock>>
    /\ UNCHANGED <<world, path, stats, run, result, seen, cache, pool, obs>>

\* mutant: the loop ends as soon as no task output is waiting
CollectEarly ==
    /\ status = "running"
    /\ doneQ = << >>
    /\ result' = cache
    /\ stats' = [success_count |-> Cardinality(DOMAIN cache), error_count |-> 0]
    /\ cache' = EmptyCache
    /\ status' = "ok"
    /\ UNCHANGED <<world, path, disk, run, tasks, doneQ, pending, seen, permits,
                   pool, zlock, obs>>

\* mutant: the memory cache is copied, not taken
CollectClone ==
    /\ status = "running"
    /\ \A t \in TaskIds : tasks[t].pc = "joined"
    /\ result' = cache
    /\ stats' = [success_count |-> Cardinality(DOMAIN cache), error_count |-> 0]
    /\ status' = "ok"
    /\ UNCHANGED <<world, path, disk, run, tasks, doneQ, pending, seen, cache,
                   permits, pool, zlock, obs>>

\* mutant: the two counters of the DownloadResult are swapped
CollectSwapped ==
    /\ status = "running"
    /\ \A t \in TaskIds : tasks[t].pc = "joined"
    /\ result' = cache
    /\ stats' = [success_count |-> 0, error_count |-> Cardinality(DOMAIN cache)]
    /\ cache' = EmptyCache
    /\ status' = "ok"
    /\ UNCHANGED <<world, path, disk, run, tasks, doneQ, pending, seen, permits,
                   pool, zlock, obs>>

\* join_next returned None: the memory cache is taken as the result
Collect ==
    /\ status = "running"
    /\ \A t \in TaskIds : tasks[t].pc = "joined"
    /\ result' = cache
    /\ stats' = [success_count |-> Cardinality(DOMAIN cache), error_count |-> 0]
    /\ cache' = EmptyCache
    /\ status' = "ok"
    /\ UNCHANGED <<world, path, disk, run, tasks, doneQ, pending, seen, permits,
                   pool, zlock, obs>>

\* mutant: the seen set of the earlier invocation is kept
NextRunKeepSeen ==
    /\ status \in {"ok", "err"}
    /\ run < MaxRuns
    /\ run' = run + 1
    /\ history' = Append(history, [status |-> status, resources |-> result,
                                   written |-> written])
    /\ status' = "running"
    /\ tasks' = <<NewTask(root)>> \o IconTasks
    /\ doneQ' = << >>
    /\ pending' = {root} \cup icon_sha1
    /\ result' = EmptyCache
    /\ stats' = NoStats
    /\ seen' = seen
    /\ cache' = EmptyCache
    /\ permits' = max_parallel
    /\ pool' = [z \in Zips |-> 0]
    /\ zlock' = {}
    /\ opens' = 0
    /\ reads' = [h \in Hashes |-> 0]
    /\ UNCHANGED <<world, path, disk, written>>

\* the same roots are resolved again by a later invocation: a new Downloader
\* over the cache directory the earlier invocation left behind
NextRun ==
    /\ status \in {"ok", "err"}
    /\ run < MaxRuns
    /\ run' = run + 1
    /\ history' = Append(history, [status |-> status, resources |-> result,
                                   written |-> written])
    /\ status' = "running"
    /\ tasks' = <<NewTask(root)>> \o IconTasks
    /\ doneQ' = << >>
    /\ pending' = {root} \cup icon_sha1
    /\ result' = EmptyCache
    /\ stats' = NoStats
    /\ seen' = {}
    /\ cache' = EmptyCache
    /\ permits' = max_parallel
    /\ pool' = [z \in Zips |-> 0]
    /\ zlock' = {}
    /\ opens' = 0
    /\ reads' = [h \in Hashes |-> 0]
    /\ UNCHANGED <<world, path, disk, written>>

Next ==
    \/ \E t \in TaskIds : Exists(t)
    \/ \E t \in TaskIds : DiskRead(t)
    \/ \E t \in TaskIds : DiskSeen(t)
    \/ \E t \in TaskIds : DiskMem(t)
    \/ \E t \in TaskIds : Acquire(t)
    \/ \E t \in TaskIds : ZGet(t)
    \/ \E t \in TaskIds : ZOpen(t)
    \/ \E t \in TaskIds : ZInsert(t)
    \/ \E t \in TaskIds : ZRef(t)
    \/ \E t \in TaskIds : ZLock(t)
    \/ \E t \in TaskIds : ZExtract(t)
    \/ \E t \in TaskIds : WriteCreate(t)
    \/ \E t \in TaskIds : WriteAll(t)
    \/ \E t \in TaskIds : ArchSeen(t)
    \/ \E t \in TaskIds : ArchMem(t)
    \/ JoinNext
    \/ Collect
    \/ NextRun

Spec == Init /\ [][Next]_vars

\* ------------------------------------------------ archive path derivation
\* Texts are sequences of pieces: a character, or a literal of the format
\* string.
Sha1Len == 20
Bytes == 0..255
LowerDigits == <<"0", "1", "2", "3", "4", "5", "6", "7",
                 "8", "9", "a", "b", "c", "d", "e", "f">>
UpperDigits == <<"0", "1", "2", "3", "4", "5", "6", "7",
                 "8", "9", "A", "B", "C", "D", "E", "F">>

\* hex::encode: two lowercase digits for every byte
RECURSIVE hex_encode(_)
hex_encode(bs) ==
    IF bs = << >> THEN << >>
    ELSE <<LowerDigits[(Head(bs) \div 16) + 1], LowerDigits[(Head(bs) % 16) + 1]>>
         \o hex_encode(Tail(bs))

\* u8::from_str_radix(s, 16): digits of either case, most significant first
DigitValue(c) == CHOOSE n \in 0..15 : c \in {LowerDigits[n + 1], UpperDigits[n + 1]}
RECURSIVE from_str_radix(_)
from_str_radix(s) ==
    IF s = << >> THEN 0
    ELSE 16 * from_str_radix(SubSeq(s, 1, Len(s) - 1)) + DigitValue(s[Len(s)])

\* & and | of two u8 values, bit by bit
RECURSIVE BitAnd(_, _)
BitAnd(a, b) ==
    IF a = 0 \/ b = 0 THEN 0
    ELSE (a % 2) * (b % 2) + 2 * BitAnd(a \div 2, b \div 2)
RECURSIVE BitOr(_, _)
BitOr(a, b) ==
    IF a = 0 THEN b ELSE IF b = 0 THEN a
    ELSE (IF a % 2 = 1 \/ b % 2 = 1 THEN 1 ELSE 0) + 2 * BitOr(a \div 2, b \div 2)

\* mutant: the mask keeps the low nibble
RangeStartLowNibble(first) == BitAnd(first, 15)

\* first & 0xF0
RangeStart(first) == BitAnd(first, 240)
\* range_start | 0x0F
RangeEnd(range_start) == BitOr(range_start, 15)

\* {:02x}: two digits, zero padded, lowercase
Fmt02x(n) == <<LowerDigits[(n \div 16) + 1], LowerDigits[(n % 16) + 1]>>

\* the hashes whose location is derived: every first byte, a few second
\* bytes, the other bytes all alike
PathHashes ==
    {[i \in 1..Sha1Len |-> IF i = 1 THEN b0 ELSE IF i = 2 THEN b1 ELSE fill] :
        b0 \in Bytes, b1 \in {0, 74, 255}, fill \in {0, 171}}

\* step 2 of fetch_one_cached up to the permit: res_folder, subfolder,
\* zipname and entry_name of the hash
DerivePath ==
    /\ sha1 # << >>
    /\ derived = NoPath
    /\ LET hex == hex_encode(sha1)
           first == from_str_radix(SubSeq(hex, 1, 2))
           range_start == RangeStart(first)
           range_end == RangeEnd(range_start)
       IN  derived' =
             [range_start |-> range_start,
              range_end |-> range_end,
              res_folder |-> <<"LBP online levels 2023 (res ">>
                             \o Fmt02x(range_start) \o <<"-">>
                             \o Fmt02x(range_end) \o <<")">>,
              subfolder |-> <<"dry23r">> \o SubSeq(hex, 1, 1),
              zipname |-> <<"dry">> \o SubSeq(hex, 1, 2) \o <<".zip">>,
              entry_name |-> SubSeq(hex, 1, 2) \o <<"/">> \o SubSeq(hex, 3, 4)
                             \o <<"/">> \o hex]
    /\ UNCHANGED <<world, sha1, stats, disk, run, status, tasks, doneQ,
                   pending, result, dl, obs>>

\* a call of fetch_one_cached that misses the disk cache, for any hash
PathInit ==
    /\ sha1 \in PathHashes
    /\ derived = NoPath
    /\ root = 0 /\ icon_sha1 = {} /\ max_parallel = 1
    /\ disk = NoFaultDisk /\ entry = NoFaultEntry /\ zipOk = AllZipsOk
    /\ diskFull = FALSE /\ shardOf = OwnShard
    /\ run = 1 /\ history = << >> /\ written = {}
    /\ StartRun
    /\ caller = "fetch_level" /\ configured = max_parallel

PathNext == DerivePath

PathSpec == PathInit /\ [][PathNext]_vars

\* one step of the fetch_one_cached future t
TaskStep(t) ==
    \/ Exists(t) \/ DiskRead(t) \/ DiskSeen(t) \/ DiskMem(t)
    \/ Acquire(t) \/ ZGet(t) \/ ZOpen(t) \/ ZInsert(t) \/ ZRef(t)
    \/ ZLock(t) \/ ZExtract(t) \/ WriteCreate(t) \/ WriteAll(t)
    \/ ArchSeen(t) \/ ArchMem(t)

\* the runtime polls every spawned task that can make a step, and the
\* future of download_level itself; nothing obliges the caller to start
\* another run
Fairness ==
    /\ \A t \in 1..(Cardinality(Hashes) + 1) :
           WF_vars(t \in TaskIds /\ TaskStep(t))
    /\ WF_vars(JoinNext)
    /\ WF_vars(Collect)

FairSpec == Init /\ [][Next]_vars /\ Fairness

\* ------------------------------------------ the callers of download_level
MaxConfigured == 11
Callers == {"dl_as_planet", "dl_as_backup", "fetch_planet_resources",
            "fetch_planet_resources_helper_function", "fetch_level"}
MaxBackupParallel == 10

\* mutant: a value above the limit is passed on as it is
ClampNoLimit(n) == n

\* dl_as_backup: if max_parallel > 10 { max_parallel = 10 }
Clamp(n) == IF n > MaxBackupParallel THEN MaxBackupParallel ELSE n

\* else if max_parallel == 0 { return Err(..) }
Rejects(c, n) == c = "dl_as_backup" /\ ~(n > MaxBackupParallel) /\ n = 0

\* the max_parallel argument of the download_level call of caller c
PassedParallel(c, n) == IF c = "dl_as_backup" THEN Clamp(n) ELSE n

\* the caller runs up to its download_level call: dl_as_backup returns an
\* error for 0 and clamps, the others pass max_parallel_downloads on;
\* download_level then builds the Downloader and spawns the first tasks
CallDownloadLevel ==
    /\ status = "idle"
    /\ IF Rejects(caller, configured)
       THEN /\ status' = "rejected"
            /\ UNCHANGED <<max_parallel, tasks, doneQ, pending, result, stats,
                           dl, opens, reads>>
       ELSE /\ max_parallel' = PassedParallel(caller, configured)
            /\ status' = "running"
            /\ tasks' = <<NewTask(root)>> \o IconTasks
            /\ doneQ' = << >>
            /\ pending' = {root} \cup icon_sha1
            /\ result' = EmptyCache
            /\ stats' = NoStats
            /\ seen' = {}
            /\ cache' = EmptyCache
            /\ permits' = PassedParallel(caller, configured)
            /\ pool' = [z \in Zips |-> 0]
            /\ zlock' = {}
            /\ opens' = 0
            /\ reads' = [h \in Hashes |-> 0]
    /\ UNCHANGED <<root, icon_sha1, zipOk, entry, diskFull, shardOf, caller,
                   configured, path, disk, run, written, history>>

\* the cache directories a call may find: empty, the root cached, the
\* whole closure of root 0 cached, or the file of the root corrupt
CallerDisks ==
    {NoFaultDisk,
     [NoFaultDisk EXCEPT ![0] = GoodBlob(0)],
     [h \in Hashes |-> IF h \in {0, 1, 2} THEN GoodBlob(h) ELSE Absent],
     [NoFaultDisk EXCEPT ![0] = BadBlob(0)]}

\* a caller about to run, with any max_parallel_downloads in its Config
CallerInit ==
    /\ caller \in Callers
    /\ configured \in 0..MaxConfigured
    /\ root = 0 /\ icon_sha1 \in {{}, {1}}
    /\ disk \in CallerDisks
    /\ entry = NoFaultEntry /\ zipOk = AllZipsOk
    /\ diskFull = FALSE /\ shardOf = OwnShard
    /\ max_parallel = 0
    /\ status = "idle"
    /\ tasks = << >> /\ doneQ = << >> /\ pending = {}
    /\ result = EmptyCache /\ stats = NoStats
    /\ seen = {} /\ cache = EmptyCache /\ permits = 0
    /\ pool = [z \in Zips |-> 0] /\ zlock = {}
    /\ opens = 0 /\ reads = [h \in Hashes |-> 0]
    /\ run = 1 /\ history = << >> /\ written = {}
    /\ sha1 = << >> /\ derived = NoPath

CallerNext == CallDownloadLevel \/ Next

CallerSpec == CallerInit /\ [][CallerNext]_vars

TypeOK ==
    /\ status \in {"idle", "rejected", "running", "ok", "err"}
    /\ permits \in 0..max_parallel
    /\ seen \subseteq Hashes
    /\ DOMAIN cache \subseteq Hashes

\* ------------------------------------------------------ claims: vocabulary
\* the hashes a resource references: the content-hash dependencies of the
\* bytes that hash to h
Children(h) == SeqToSet(DepsOf(GoodBlob(h)))

RECURSIVE Closure(_)
\* everything reachable from the hashes of S through Children
Closure(S) ==
    LET next == S \cup UNION {Children(h) : h \in S}
    IN  IF next = S THEN S ELSE Closure(next)

\* the bytes b are a complete byte string and hash to h
Sha1Is(b, h) == b \in Blobs /\ Digest(b) = h
ArchivePcs == {"acquire"} \cup PermitPcs

Requested == {root} \cup icon_sha1
Returned == {t \in TaskIds : tasks[t].pc \in {"done", "joined"}}
TasksOf(h) == {t \in TaskIds : tasks[t].h = h}

\* C1: every entry of the memory cache, admitted through the disk tier or
\* the archive tier, and every entry of a returned resources map holds bytes
\* whose SHA1 is its key.
C1_Integrity ==
    /\ \A h \in DOMAIN cache : Sha1Is(cache[h], h)
    /\ status = "ok" => \A h \in DOMAIN result : Sha1Is(result[h], h)

\* a successful first run whose result holds a hash served by a cache file
\* that was there before (2) and a hash extracted from an archive (0)
C1_Witness ==
    /\ status = "ok" /\ run = 1
    /\ {0, 2} \subseteq DOMAIN result
    /\ 0 \in written /\ 2 \notin written

\* C2: a successful download_level returns the root, the icon and every
\* hash reachable from them through content-hash dependencies.
C2_ClosureComplete ==
    status = "ok" => Closure(Requested) \subseteq DOMAIN result

\* root and icon are the same hash, its children are shared and form a cycle
C2_Witness ==
    /\ status = "ok" /\ run = 1
    /\ root = 0 /\ icon_sha1 = {0}
    /\ DOMAIN result = {0, 1, 2}

\* C3: of the fetch_one_cached calls of one run for the same hash, exactly
\* one reads the cache file or extracts the archive entry.
C3_AtMostOnceFetch == \A h \in Hashes : reads[h] <= 1

\* C4: of the calls for one hash that returned Ok, the one whose insertion
\* into the seen set succeeded returns the dependency list of the hash and
\* every other returns no children; when all calls for the hash have
\* returned Ok there is exactly one such call.
C4_SingleReporter ==
    \A h \in Hashes :
        LET oks == {t \in TasksOf(h) \cap Returned : tasks[t].ret = "ok"}
            reporters == {t \in oks : tasks[t].claimed}
        IN  /\ Cardinality(reporters) <= 1
            /\ \A t \in reporters : tasks[t].deps = DepsOf(GoodBlob(h))
            /\ \A t \in oks \ reporters : tasks[t].deps = << >>
            /\ (oks # {} /\ oks = TasksOf(h)) => Cardinality(reporters) = 1

\* two calls for hash 0 have returned Ok: one with the children, one without
C4_Witness ==
    \E t, u \in TasksOf(0) \cap Returned :
        /\ t # u
        /\ tasks[t].ret = "ok" /\ tasks[t].deps = <<1, 2>>
        /\ tasks[u].ret = "ok" /\ tasks[u].deps = << >>

\* C5: when a fetch task has ended with a fatal error, download_level does
\* not return Ok, and a failed download_level returns no resources map.
C5_FailFast ==
    /\ status = "ok" => \A t \in TaskIds : ~IsErr(tasks[t].ret)
    /\ status = "err" => result = EmptyCache

\* the run failed on one task after another task had put its blob into the
\* memory cache
C5_Witness ==
    /\ status = "err"
    /\ \E t \in TaskIds : IsErr(tasks[t].ret)
    /\ DOMAIN cache # {}

\* C6: a call whose bytes verify but whose dependency extraction fails
\* returns Ok with no children, and its blob stays in the memory cache.
C6_ExtractionFailureNonFatal ==
    \A t \in Returned :
        ( /\ ResrcDataNew(GoodBlob(tasks[t].h)).kind = "fail"
          /\ tasks[t].ret \notin {"io", "open", "entry", "mismatch"} )
        => /\ tasks[t].ret = "ok"
           /\ tasks[t].deps = << >>
           /\ tasks[t].claimed => tasks[t].h \in DOMAIN cache \cup DOMAIN result

\* C7: every cache file the resolver has written holds bytes whose SHA1 is
\* the name of the file.
C7_OnlyVerifiedPersisted ==
    \A h \in written : Sha1Is(disk[h], h)

\* C8: a hash that is not in the disk cache and whose archive cannot be
\* opened: every call for it returns the open error, no cache file exists
\* for it, and it is in neither the seen set nor the memory cache.  (In the
\* worlds with an unopenable archive the disk cache starts empty.)
C8_FailureContainment ==
    \A h \in Hashes :
        ~zipOk[ZipOf(h)] =>
            /\ disk[h] = Absent
            /\ h \notin seen
            /\ h \notin DOMAIN cache
            /\ \A t \in TasksOf(h) \cap Returned : tasks[t].ret = "open"

\* a call has failed to open the archive and the run has returned the error
C8_Witness ==
    /\ status = "err"
    /\ \E t \in Returned : tasks[t].ret = "open" /\ disk[tasks[t].h] = Absent

\* C9: while the cache file of h holds bytes that do not hash to h, every
\* call for h that has returned has returned the mismatch error, h is in
\* neither the memory cache nor a result, and no call for h is in the
\* archive tier.
C9_DiskCorruptionDetected ==
    \A h \in Hashes :
        (disk[h] \in Blobs /\ Digest(disk[h]) # h) =>
            /\ h \notin DOMAIN cache
            /\ h \notin DOMAIN result
            /\ \A t \in TasksOf(h) :
                /\ tasks[t].pc \notin ArchivePcs
                /\ t \in Returned => tasks[t].ret = "mismatch"

\* a call has rejected a tampered cache file
C9_Witness ==
    \E t \in Returned :
        /\ tasks[t].ret = "mismatch"
        /\ disk[tasks[t].h] \in Blobs
        /\ Digest(disk[tasks[t].h]) # tasks[t].h

\* C10: a run that follows a successful run for the same roots opens no
\* archive, does not fail, and returns the resources map of that run.
C10_WarmCacheIdempotent ==
    (run >= 2 /\ history[run - 1].status = "ok") =>
        /\ opens = 0
        /\ status # "err"
        /\ status = "ok" => result = history[run - 1].resources

\* the second run for root 0 has returned the three resources of the first
C10_Witness ==
    /\ run = 2 /\ status = "ok"
    /\ history[1].status = "ok"
    /\ DOMAIN result = {0, 1, 2}
    /\ opens = 0

\* the resources map the inputs determine: the bytes of every hash of the
\* closure of the roots
ExpectedMap == [h \in Closure(Requested) |-> GoodBlob(h)]
PermitHolders == {t \in TaskIds : tasks[t].pc \in PermitPcs}

\* C11: every successful run, whatever the order of the task steps and
\* whatever max_parallel, returns the one resources map that the roots and
\* the archive contents determine.
C11_Deterministic ==
    /\ status = "ok" => result = ExpectedMap
    /\ \A i \in DOMAIN history :
        history[i].status = "ok" => history[i].resources = ExpectedMap

\* a run with two permits in which an archive was opened twice by racing
\* tasks has returned the three resources of root 0
C11_Witness ==
    /\ status = "ok" /\ max_parallel >= 2
    /\ root = 0 /\ DOMAIN result = {0, 1, 2}
    /\ opens >= 3

\* C12: the tasks past the permit acquisition never outnumber max_parallel.
C12_BoundedConcurrency == Cardinality(PermitHolders) <= max_parallel

\* every permit is taken and another task waits for one
C12_Witness ==
    /\ Cardinality(PermitHolders) = max_parallel
    /\ \E t \in TaskIds : tasks[t].pc = "acquire"

\* C14: a call fails the digest check only on bytes that were wrong before
\* the run: a tampered cache file or a corrupt archive entry; a cache file
\* that another call is writing is never read in a partial state.  (Stated
\* for the worlds in which fs::write itself does not fail.)
C14_ConcurrentCacheFileBenign ==
    ~diskFull =>
        \A t \in Returned :
            tasks[t].ret = "mismatch" =>
                \/ entry[tasks[t].h] # GoodBlob(tasks[t].h)
                \/ /\ disk[tasks[t].h] \in Blobs
                   /\ Digest(disk[tasks[t].h]) # tasks[t].h

\* C19: the insertion into the seen set is the first step of a call: a call
\* that is past its first step, reading the cache file or in the archive
\* tier, has its hash in the seen set.
C19_DedupGateFirst ==
    \A t \in TaskIds :
        tasks[t].pc \in ActivePcs \ {"exists"} => tasks[t].h \in seen

\* C20: a run spawns at most one fetch task per hash.
C20_OneTaskPerHash ==
    \A h \in Hashes : Cardinality(TasksOf(h)) <= 1

\* C15: on success the memory cache has been emptied into the result and
\* success_count is the number of keys of the result, which is the number
\* of hashes of the closure of the roots.
C15_ResultAccounting ==
    status = "ok" =>
        /\ cache = EmptyCache
        /\ stats.success_count = Cardinality(DOMAIN result)
        /\ stats.success_count = Cardinality(Closure(Requested))

\* root 0 with icon 1: two roots, three distinct resources counted
C15_Witness ==
    /\ status = "ok"
    /\ root = 0 /\ icon_sha1 = {1}
    /\ stats.success_count = 3

\* C16: a DownloadResult always has error_count 0, and no DownloadResult is
\* returned by a run in which a fetch failed.
C16_ErrorCountZero ==
    /\ stats.error_count = 0
    /\ status = "ok" => \A t \in TaskIds : tasks[t].ret = "ok"
    /\ (\E t \in TaskIds : tasks[t].pc = "joined" /\ IsErr(tasks[t].ret))
        => status = "err" /\ stats = NoStats

\* a run failed on a fetch and returned no DownloadResult; its retry has
\* returned one, with error_count 0
C16_Witness ==
    /\ run = 2 /\ history[1].status = "err"
    /\ status = "ok"
    /\ stats.success_count > 0 /\ stats.error_count = 0

\* C17: when a run has aborted, every cache file the resolver has written
\* holds bytes whose SHA1 is its name, and in the retry that follows no call
\* for such a hash fails the digest check or enters the archive tier.
C17_PartialProgressSurvives ==
    /\ status = "err" => \A h \in written : Sha1Is(disk[h], h)
    /\ (run >= 2 /\ history[run - 1].status = "err") =>
          \A t \in TaskIds :
              tasks[t].h \in history[run - 1].written =>
                  tasks[t].ret # "mismatch" /\ tasks[t].pc \notin ArchivePcs

\* a running task that cannot make its next step: it waits for a permit,
\* for the lock of its archive or for the shard of the pool
Blocked(t) ==
    \/ tasks[t].pc = "acquire" /\ permits = 0
    \/ tasks[t].pc = "zlock" /\ tasks[t].handle \in zlock
    \/ tasks[t].pc = "zinsert" /\ RefHolders(ZipOf(tasks[t].h)) # {}

FullHex ==
    [i \in 1..(2 * Len(sha1)) |->
        IF i % 2 = 1 THEN LowerDigits[(sha1[(i + 1) \div 2] \div 16) + 1]
        ELSE LowerDigits[(sha1[i \div 2] % 16) + 1]]
Resolved == derived # NoPath
\* the range as it is written in the name of the shard folder
Bucket == SubSeq(derived.res_folder, 2, 6)

\* the numeric range, the sub-folder, the archive file and the entry of any
\* hash
PathOfAnyHash ==
    Resolved =>
        LET b0 == sha1[1]
            lo == b0 - (b0 % 16)
        IN  /\ derived.range_start = lo
            /\ derived.range_end = lo + 15
            /\ derived.range_start <= b0 /\ b0 <= derived.range_end
            /\ derived.range_end - derived.range_start + 1 = 16
            /\ Len(FullHex) = 40
            /\ derived.subfolder = <<"dry23r", FullHex[1]>>
            /\ derived.zipname = <<"dry", FullHex[1], FullHex[2], ".zip">>
            /\ derived.entry_name =
                  <<FullHex[1], FullHex[2], "/", FullHex[3], FullHex[4], "/">>
                  \o FullHex

\* the names of a hash that starts 0x93 0x4a, with the given bucket text
PathOf934a(bucket) ==
    (Resolved /\ sha1[1] = 147 /\ sha1[2] = 74) =>
        /\ Bucket = bucket
        /\ derived.subfolder = <<"dry23r", "9">>
        /\ derived.zipname = <<"dry", "9", "3", ".zip">>
        /\ SubSeq(derived.entry_name, 1, 6) = <<"9", "3", "/", "4", "a", "/">>
        /\ SubSeq(derived.entry_name, 7, Len(derived.entry_name)) = FullHex

Openers(z) ==
    {t \in TaskIds : /\ ZipOf(tasks[t].h) = z
                     /\ tasks[t].pc = "zinsert" \/ pool[z] = t}
\* the tasks reading an entry out of archive z
Extracting(z) ==
    {t \in TaskIds : tasks[t].pc = "zextract" /\ ZipOf(tasks[t].h) = z}

\* C21: in one run every archive file is opened at most once, whatever the
\* interleaving of the fetches of that archive, and a handle that is in the
\* pool is never replaced by another one.
C21_OneHandlePerArchive ==
    \A z \in Zips : Cardinality(Openers(z)) <= 1

\* C22: at most one task at a time extracts an entry from a given archive
\* file; another task of that archive waits for the lock until the first
\* has finished.
C22_SameArchiveExclusion ==
    /\ \A z \in Zips : Cardinality(Extracting(z)) <= 1
    /\ \A t \in TaskIds : tasks[t].pc \in RefPcs =>
          tasks[t].handle = pool[ZipOf(tasks[t].h)]

\* one task extracts from archive 0 while another one, which opened the
\* archive too, waits for the lock
C22_Witness ==
    \E t, u \in TaskIds :
        /\ tasks[t].pc = "zextract" /\ tasks[u].pc = "zlock"
        /\ ZipOf(tasks[t].h) = ZipOf(tasks[u].h)
        /\ opens = 2

\* C23: a task that holds a permit never waits for an extraction that goes
\* on in another archive: not for its handle, not for the lock of it, not to
\* insert the handle it has opened.
C23_ArchiveIndependence ==
    \A t \in TaskIds :
        /\ tasks[t].pc = "zinsert" =>
              \A u \in RefHolders(ZipOf(tasks[t].h)) :
                  ZipOf(tasks[u].h) = ZipOf(tasks[t].h)
        /\ (tasks[t].pc = "zlock" /\ tasks[t].handle \in zlock) =>
              \E u \in Extracting(ZipOf(tasks[t].h)) : u # t

\* program points of the disk tier
DiskPcs == {"dread", "dseen", "dmem"}

\* C24: a fetch that finds a cache file for its hash never goes on to the
\* permit acquisition or the archive tier, and it can always make its next
\* step, also while every permit is held by archive-tier fetches.
C24_DiskTierBypassesLimiter ==
    /\ [](\A t \in TaskIds : tasks[t].pc \in DiskPcs => ENABLED TaskStep(t))
    /\ [][\A t \in TaskIds :
            (tasks[t].pc \in DiskPcs /\ t \in DOMAIN tasks') =>
                tasks'[t].pc \notin ArchivePcs]_vars

\* the one permit is held by an archive-tier fetch while another fetch
\* reads its cache file
C24_Witness ==
    /\ permits = 0
    /\ \E t \in TaskIds : tasks[t].pc = "zextract"
    /\ \E t \in TaskIds : tasks[t].pc = "dread"

\* the archive entry of h holds bytes that do not hash to h
CorruptEntry(h) == entry[h] \in Blobs /\ ~Sha1Is(entry[h], h)

\* C25: a fetch that extracts bytes which do not hash to the requested hash
\* fails and the run aborts; those bytes are not written to the disk cache,
\* not put into the memory cache and not returned, and the hash does not
\* enter the seen set.
C25_ArchiveCorruptionContained ==
    /\ \A h \in Hashes : CorruptEntry(h) =>
          /\ disk[h] # entry[h]
          /\ h \in DOMAIN cache => cache[h] # entry[h]
          /\ h \in DOMAIN result => result[h] # entry[h]
          /\ \A t \in TasksOf(h) : tasks[t].buf # entry[h]
    /\ \A t \in TaskIds :
          (tasks[t].ret = "mismatch" /\ CorruptEntry(tasks[t].h)) =>
              /\ tasks[t].h \notin seen
              /\ tasks[t].h \notin written
              /\ tasks[t].h \notin DOMAIN cache
              /\ tasks[t].deps = << >>
              /\ status # "ok"
              /\ tasks[t].pc = "joined" => status = "err"

\* the run has aborted on the corrupt archive entry of a child of the root,
\* after the root itself was fetched and cached on disk
C25_Witness ==
    /\ status = "err" /\ root = 0 /\ CorruptEntry(2)
    /\ \E t \in TasksOf(2) : tasks[t].ret = "mismatch" /\ tasks[t].pc = "joined"
    /\ 0 \in written

IsSha1(d) == d[1] = "sha1"
\* the hashes of the content-hash descriptors of the resource in b, in the
\* order of its descriptor list; none when b is not a binary resource
HashRefs(b) ==
    LET meta == ResrcDataNew(b)
        sel == SelectSeq(meta.dependencies, IsSha1)
    IN  IF meta.kind = "binary" THEN [i \in 1..Len(sel) |-> sel[i][2]] ELSE << >>
\* the calls whose child list is computed from the bytes they verified: the
\* archive-tier calls past the extraction and the calls that returned Ok
\* after entering their hash into the seen set
Reporting ==
    {t \in TaskIds : \/ tasks[t].pc \in {"write", "write2", "aseen", "amem"}
                     \/ tasks[t].ret = "ok" /\ tasks[t].claimed}

\* C26: the child list of a fetch is the list of the content-hash
\* descriptors of its resource, in their order; descriptors of other kinds
\* are dropped and a resource that is not a structured binary one has no
\* children.
C26_OnlyHashRefsTraversed ==
    \A t \in Reporting : tasks[t].deps = HashRefs(tasks[t].buf)

\* the fetch of hash 0 returned its two hash references without the GUID
\* between them, and the fetch of hash 2, not a binary resource, returned
\* none
C26_Witness ==
    /\ \E t \in Reporting : /\ tasks[t].h = 0 /\ tasks[t].ret = "ok"
                             /\ tasks[t].deps = <<1, 2>>
    /\ \E t \in Reporting : /\ tasks[t].h = 2 /\ tasks[t].ret = "ok"
                             /\ tasks[t].deps = << >>

\* download_level has spawned its first tasks and none has made a step
AtStart == tasks = <<NewTask(root)>> \o IconTasks

\* C27: every invocation starts with an empty seen set, an empty memory
\* cache and an empty handle pool; what an earlier invocation resolved is
\* known to a later one through the cache directory only, so the later one
\* fetches each of those hashes again, from its cache file, and returns it.
C27_RunScopedState ==
    /\ AtStart =>
          /\ seen = {} /\ cache = EmptyCache
          /\ \A z \in Zips : pool[z] = 0
          /\ zlock = {} /\ permits = max_parallel
    /\ (run >= 2 /\ history[run - 1].status = "ok") =>
          /\ opens = 0
          /\ \A t \in TaskIds : tasks[t].pc \notin ArchivePcs
          /\ \A t \in Returned : tasks[t].ret = "ok" /\ reads[tasks[t].h] >= 1
          /\ status = "ok" => result = history[run - 1].resources

\* a second invocation has returned the three resources of root 0 again,
\* each read from the cache file the first invocation wrote
C27_Witness ==
    /\ run = 2 /\ history[1].status = "ok" /\ status = "ok"
    /\ root = 0 /\ DOMAIN result = {0, 1, 2}
    /\ written = {0, 1, 2}
    /\ \A h \in {0, 1, 2} : reads[h] >= 1

RECURSIVE Reachable(_)
\* the hashes of S and every hash that a chain of content-hash descriptors
\* leads to from them
Reachable(S) ==
    LET next == S \cup UNION {SeqToSet(HashRefs(GoodBlob(h))) : h \in S}
    IN  IF next = S THEN S ELSE Reachable(next)

\* C28: every key of the returned map is the root, the icon or a hash
\* reachable from them through content-hash descriptors, and a run spawns
\* no task for, reads, caches or writes no hash outside that closure.
C28_ClosureSound ==
    LET reach == Reachable(Requested)
    IN  /\ DOMAIN result \subseteq reach
        /\ DOMAIN cache \subseteq reach
        /\ pending \subseteq reach
        /\ written \subseteq reach
        /\ \A t \in TaskIds : tasks[t].h \in reach
        /\ \A h \in Hashes : reads[h] > 0 => h \in reach
        /\ \A i \in DOMAIN history : DOMAIN history[i].resources \subseteq reach

\* the run for root 0 has returned 0, 1 and 2 and nothing else, although
\* the resource 0 carries a GUID descriptor and hash 3 is in the archive
C28_Witness ==
    /\ status = "ok" /\ root = 0 /\ icon_sha1 = {}
    /\ DOMAIN result = {0, 1, 2}
    /\ entry[3] = GoodBlob(3)
    /\ Len(tasks) = 3

\* download_level has been called
Called == status \in {"running", "ok", "err"}
\* the tasks whose hash has no cache file
Misses == {t \in TaskIds : disk[tasks[t].h] = Absent}

\* what the callers hand to download_level: dl_as_backup never 0, the others
\* the configured value as it is, 0 included
C29_Callers ==
    /\ (Called /\ caller = "dl_as_backup") => max_parallel >= 1
    /\ (caller = "dl_as_backup" /\ configured = 0 /\ status # "idle") =>
          status = "rejected" /\ tasks = << >>
    /\ (caller # "dl_as_backup" /\ status # "idle") =>
          Called /\ max_parallel = configured

\* C29, as stated: with max_parallel = 0 every fetch that misses the disk
\* cache waits at the permit acquisition for ever, so download_level returns
\* only if every reachable hash is in the disk cache; dl_as_backup rejects 0
\* before any download, the other callers pass the configured value on.
C29_ZeroPermitsBlock ==
    /\ (Called /\ max_parallel = 0) =>
          /\ \A t \in Misses : tasks[t].pc \in {"exists", "acquire"}
          /\ status \in {"ok", "err"} =>
                \A h \in Reachable(Requested) : disk[h] # Absent
    /\ C29_Callers

\* C29, amended: with max_parallel = 0 no fetch ever gets a permit; a fetch
\* that misses the disk cache waits at the acquisition until the run ends,
\* which happens only by the failure of a fetch served from a cache file;
\* download_level returns Ok only if every reachable hash is in the disk
\* cache; dl_as_backup rejects 0, the other callers pass it on.
C29_ZeroPermitsBlockUntilAbort ==
    /\ (Called /\ max_parallel = 0) =>
          /\ \A t \in TaskIds : tasks[t].pc \notin PermitPcs
          /\ opens = 0 /\ written = {}
          /\ \A t \in Misses :
                /\ tasks[t].pc \in {"exists", "acquire", "aborted"}
                /\ tasks[t].pc = "aborted" => status = "err"
                /\ tasks[t].pc = "acquire" => status = "running"
          /\ status = "ok" =>
                \A h \in Reachable(Requested) : disk[h] = GoodBlob(h)
          /\ status = "err" =>
                \E t \in TaskIds : /\ tasks[t].pc = "joined" /\ IsErr(tasks[t].ret)
                                   /\ disk[tasks[t].h] # Absent
    /\ C29_Callers

\* fetch_level was configured with 0: the root task has read its cache file
\* and returned, and every task left waits for a permit
C29_Witness ==
    /\ caller = "fetch_level" /\ configured = 0 /\ max_parallel = 0
    /\ status = "running" /\ doneQ = << >>
    /\ \E t \in TaskIds : tasks[t].pc = "joined" /\ tasks[t].ret = "ok"
    /\ \E t \in TaskIds : tasks[t].pc = "acquire"
    /\ \A t \in TaskIds : tasks[t].pc \in {"joined", "acquire"}

\* C30: the max_parallel that dl_as_backup hands to download_level is in
\* 1..10: a configured value above 10 becomes 10, a value in 1..10 is passed
\* as it is, and for 0 dl_as_backup returns an error before anything is
\* fetched.
C30_BackupClamp ==
    (caller = "dl_as_backup" /\ status # "idle") =>
        /\ configured = 0 =>
              /\ status = "rejected" /\ tasks = << >>
              /\ opens = 0 /\ written = {}
              /\ \A h \in Hashes : reads[h] = 0
        /\ configured > 10 => Called /\ max_parallel = 10
        /\ configured \in 1..10 => Called /\ max_parallel = configured
        /\ Called => max_parallel \in 1..10

\* dl_as_backup, configured with 11, has finished a run with 10 permits
C30_Witness ==
    /\ caller = "dl_as_backup" /\ configured = 11
    /\ status = "ok" /\ max_parallel = 10 /\ permits = 10
    /\ DOMAIN result = {0, 1, 2}

\* the tasks whose output the scheduler loop has taken
Joined == {t \in TaskIds : tasks[t].pc = "joined"}

\* C31: the scheduler loop returns on the first failed task it observes:
\* exactly one failed output has been taken, only children reported by
\* outputs taken before it were ever enqueued, no task runs on and nothing
\* is spawned afterwards.
C31_NoSpawnAfterFailure ==
    /\ [](pending = Requested \cup
                    UNION {SeqToSet(tasks[t].deps) :
                               t \in {u \in Joined : tasks[u].ret = "ok"}})
    /\ [](status = "err" =>
            /\ Cardinality({t \in Joined : IsErr(tasks[t].ret)}) = 1
            /\ \A t \in TaskIds : tasks[t].pc \in {"joined", "done", "aborted"}
            /\ doneQ = << >>
            /\ Len(tasks) <= Cardinality(pending) + 1)
    /\ [][status = "err" => (status' = "err" => tasks' = tasks /\ pending' = pending)]_vars

\* the run has ended on the failure of the icon while the root task had
\* completed with children that were never enqueued
C31_Witness ==
    /\ status = "err"
    /\ \E t \in TaskIds :
          /\ tasks[t].pc = "done" /\ tasks[t].ret = "ok"
          /\ \E c \in SeqToSet(tasks[t].deps) : c \notin pending

\* the bytes that hash to h are bytes the decoder fails on
Unparsable(h) == ResrcDataNew(GoodBlob(h)).kind = "fail"

\* C32: in the archive tier the bytes are parsed before anything is
\* recorded: for a hash whose bytes verify but do not parse, the fetch
\* fails, no cache file is written and the hash enters neither the seen set
\* nor the memory cache.
C32_ParseBeforePersist ==
    \A h \in Hashes : (Unparsable(h) /\ entry[h] = GoodBlob(h)) =>
        /\ h \notin written /\ disk[h] = Absent
        /\ h \notin seen
        /\ h \notin DOMAIN cache /\ h \notin DOMAIN result
        /\ \A t \in TasksOf(h) \cap Returned :
              tasks[t].ret = IF zipOk[ZipOf(h)] THEN "parse" ELSE "open"
        /\ \A t \in TasksOf(h) : tasks[t].pc \notin {"write", "write2", "aseen", "amem"}

\* the run for root 2 and icon 3 has failed on the parse of 3, read from
\* its archive, after the file of 2 was written
C32_Witness ==
    /\ status = "err" /\ root = 2 /\ icon_sha1 = {3}
    /\ \E t \in TasksOf(3) : tasks[t].ret = "parse" /\ tasks[t].pc = "joined"
    /\ reads[3] = 1 /\ 2 \in written

\* a fetch of h of this run was rejected by the digest check of the disk
\* tier
DiskRejected(h) ==
    \E t \in TasksOf(h) : tasks[t].ret = "mismatch" /\ ~CorruptEntry(h)

\* C33: once the disk tier has rejected the cache file of a hash, the file
\* stays as it is, not deleted and not overwritten, and the hash stays out
\* of the seen set and the memory cache, so that every later fetch of the
\* hash, in this run or a later one, is rejected too.
C33_CorruptFileSticky ==
    [][\A h \in Hashes : DiskRejected(h) =>
          /\ disk'[h] = disk[h]
          /\ ~Sha1Is(disk'[h], h)
          /\ h \notin seen' /\ h \notin DOMAIN cache']_vars

\* C34: every key of the memory cache is in the seen set, in every state of
\* a run; when every task has finished with Ok the two sets of keys are the
\* same, and they are the keys of the returned map.
C34_CacheCoveredBySeen ==
    /\ DOMAIN cache \subseteq seen
    /\ (status = "running" /\ \A t \in TaskIds : tasks[t].pc = "joined") =>
          DOMAIN cache = seen
    /\ status = "ok" => DOMAIN result = seen

\* a hash read from its cache file is in both sets while the hash of a
\* task of the archive tier is in the seen set only
C34_Witness ==
    /\ \E t \in TaskIds : /\ tasks[t].pc = "amem"
                           /\ tasks[t].h \in seen \ DOMAIN cache
    /\ \E h \in DOMAIN cache : disk[h] # Absent /\ h \notin written

\* C35: every hash in the memory cache has a file in the cache directory,
\* the one it was read from or the one written before the hash was recorded,
\* and after a successful run the file of every returned hash holds the
\* bytes of that hash, ready for a later run.
C35_CacheCoveredByDisk ==
    /\ \A h \in DOMAIN cache : disk[h] # Absent
    /\ status = "ok" => \A h \in DOMAIN result : Sha1Is(disk[h], h)
    /\ \A i \in DOMAIN history : history[i].status = "ok" =>
          \A h \in DOMAIN history[i].resources : Sha1Is(disk[h], h)

\* the three resources of a run are in the memory cache, all written by
\* this run, before the run has returned
C35_Witness ==
    /\ status = "running" /\ run = 1
    /\ Cardinality(DOMAIN cache) = 3
    /\ DOMAIN cache \subseteq written
    /\ \A h \in DOMAIN cache : Sha1Is(disk[h], h)

\* C36: the permits held by the archive-tier fetches that have not
\* returned and the permits left in the semaphore always add up to
\* max_parallel: a permit is held from the acquisition to the return and
\* given back on every way out, errors and cancellation included.
C36_PermitsNeverLeak ==
    /\ permits + Cardinality(PermitHolders) = max_parallel
    /\ \A t \in TaskIds :
          tasks[t].pc \in {"done", "joined", "aborted"} => t \notin PermitHolders
    /\ status \in {"ok", "err"} => permits = max_parallel

\* a run with two permits has ended on a missing archive entry while
\* another fetch was cancelled: both permits are back
C36_Witness ==
    /\ status = "err" /\ max_parallel = 2 /\ permits = 2
    /\ \E t \in TaskIds : tasks[t].ret = "entry"
    /\ \E t \in TaskIds : tasks[t].pc = "aborted"
====
